---- MODULE Spec2Model ----
(***************************************************************************)
(* Document upload service (src/app/main.py): the upload handler, the      *)
(* status handler and the Celery task process_document, over the Metadata  *)
(* Store (table "documents"), the object store bucket and the job queue.   *)
(*                                                                         *)
(* Two specifications are given.  Spec is the handler as written: its      *)
(* first statement reads request.headers, and no name "request" is in      *)
(* scope of upload_document, so every upload ends there.  SpecBound is the *)
(* same program with that name bound to the incoming request, so that the  *)
(* rest of the handler (lines 115-153) and the task it feeds are exercised.*)
(***************************************************************************)
EXTENDS Integers, Sequences, FiniteSets, TLC

\* ------------------------------------------------------------------ bounds
MaxUploads == 2      \* upload requests per behaviour
MaxTasks == 2        \* process_document invocations per behaviour

\* --------------------------------------------------------------- constants
MAX_FILE_SIZE == 25 * 1024 * 1024

Filenames == {"a.txt", "b.txt"}

\* Declared sizes an upload request may carry in its Content-Length header.
ContentLengths == {MAX_FILE_SIZE, MAX_FILE_SIZE + 1}

\* The header as the handler reads it: <<>> when absent, <<n>> when present.
Headers == {<<>>} \cup {<<n>> : n \in ContentLengths}

Requests == 1..MaxUploads
Tasks == 1..MaxTasks

\* Identifiers a task or a status query may be given: the identifiers the
\* table can assign within the bounds (each has no row until it is assigned).
DocIds == 1..MaxUploads

\* models.DocumentStatus: member name -> value
DocumentStatus == [QUEUED |-> "queued", PROCESSING |-> "processing",
                   PROCESSED |-> "processed", FAILED |-> "failed"]

VARIABLES
    documents,   \* the committed rows of table "documents", indexed by id
    bucket,      \* the object store: key -> id of the request whose bytes it holds, 0 if absent
    queue,       \* the broker: document id -> number of process_document messages waiting
    uploads,     \* the upload_document requests, by request
    tasks,       \* the process_document invocations, by invocation
    status_resp, \* the response of get_document_status, when the last step was a
                 \* status query; NoStatusResp after any other step
    lifespan     \* the application's startup (lifespan, lines 48-96)

vars == <<documents, bucket, queue, uploads, tasks, status_resp, lifespan>>

\* ----------------------------------------------------------------- helpers
NoDoc == [id |-> 0, filename |-> "", s3_path |-> "", upload_time |-> 0, status |-> ""]

IdleUpload == [pc |-> "idle", filename |-> "", content_length |-> <<>>,
               status_code |-> 0, detail |-> "", body |-> NoDoc,
               wrote |-> FALSE, doc_id |-> 0]

IdleTask == [pc |-> "idle", document_id |-> 0, origin |-> "", doc |-> FALSE,
             pending |-> "", committed |-> <<>>, raised_at |-> "",
             session |-> "none", result |-> ""]

NoStatusResp == [document_id |-> 0, status_code |-> 0, detail |-> "", body |-> NoDoc]

\* db.query(models.Document).filter(models.Document.id == document_id).first()
RowExists(document_id) == document_id \in 1..Len(documents)

\* schemas.Document (orm_mode): the response record read from a row; the
\* status is serialised as the enum member's value.
ToSchema(row) ==
    [id |-> row.id, filename |-> row.filename, s3_path |-> row.s3_path,
     upload_time |-> row.upload_time, status |-> DocumentStatus[row.status]]

\* models.Document(filename=..., s3_path=...) as inserted: the id is the
\* next primary key, upload_time the server's now(), status the default.
NewRow(filename, s3_key) ==
    [id |-> Len(documents) + 1, filename |-> filename, s3_path |-> s3_key,
     upload_time |-> Len(documents) + 1, status |-> "QUEUED"]

Respond(u, code, detail, body) ==
    [u EXCEPT !.pc = "done", !.status_code = code, !.detail = detail, !.body = body]

\* ---------------------------------------------------------------- lifespan
\* Line 52.
retries == 5

\* What one pass of the loop of lines 65-89 can meet:
\*   "no_client"     boto3.client(...) raises (handled at line 87)
\*   "found"         head_bucket succeeds
\*   "404"           head_bucket raises ClientError with code 404
\*   "client_error"  head_bucket raises another ClientError
\*   "error"         head_bucket raises another exception (no connection)
AttemptOutcomes == {"no_client", "found", "404", "client_error", "error"}

\* Lines 50-53: before the loop.
Starting == [pc |-> "loop", attempts |-> <<>>, minio_client |-> FALSE,
             created |-> 0, raised |-> ""]

\* The application once startup found the bucket at the first attempt.
Serving == [pc |-> "serving", attempts |-> <<"found">>, minio_client |-> TRUE,
            created |-> 0, raised |-> ""]

\* Mutant: the 404 branch creates the bucket but does not break, so the loop
\* goes on to another attempt.
Attempt_NoBreakOn404(l, outcome, created_ok) ==
    LET a == Append(l.attempts, outcome)
        c == [l EXCEPT !.attempts = a,
                       !.minio_client = @ \/ outcome # "no_client"]
    IN  IF outcome = "found"
        THEN [c EXCEPT !.pc = "check"]
        ELSE IF outcome = "404" /\ ~created_ok
        THEN [c EXCEPT !.created = @ + 1, !.pc = "aborted", !.raised = "ClientError"]
        ELSE [c EXCEPT !.created = IF outcome = "404" THEN @ + 1 ELSE @,
                       !.pc = IF Len(a) < retries THEN "loop" ELSE "check"]

\* Lines 65-89: one pass of "for i in range(retries)".  The client is bound
\* at line 67 before head_bucket is called; 404 creates the bucket (an
\* exception of create_bucket, raised inside the except clause, leaves the
\* function) and breaks; success breaks; any other failure sleeps and goes
\* on to the next pass, if there is one.
Attempt(l, outcome, created_ok) ==
    LET a == Append(l.attempts, outcome)
        c == [l EXCEPT !.attempts = a,
                       !.minio_client = @ \/ outcome # "no_client"]
    IN  IF outcome = "found"
        THEN [c EXCEPT !.pc = "check"]
        ELSE IF outcome = "404"
        THEN IF created_ok
             THEN [c EXCEPT !.created = @ + 1, !.pc = "check"]
             ELSE [c EXCEPT !.created = @ + 1, !.pc = "aborted",
                            !.raised = "ClientError"]
        ELSE [c EXCEPT !.pc = IF Len(a) < retries THEN "loop" ELSE "check"]

LifespanAttempt(outcome, created_ok) ==
    /\ lifespan.pc = "loop"
    /\ (created_ok \/ outcome = "404")
    /\ lifespan' = Attempt(lifespan, outcome, created_ok)
    /\ UNCHANGED <<documents, bucket, queue, uploads, tasks, status_resp>>

\* Lines 91-94: after the loop, RuntimeError if minio_client is None,
\* otherwise the application starts serving (yield).
AfterLoop(l) ==
    IF ~l.minio_client
    THEN [l EXCEPT !.pc = "aborted", !.raised = "RuntimeError"]
    ELSE [l EXCEPT !.pc = "serving"]

LifespanCheck ==
    /\ lifespan.pc = "check"
    /\ lifespan' = AfterLoop(lifespan)
    /\ UNCHANGED <<documents, bucket, queue, uploads, tasks, status_resp>>

\* -------------------------------------------------------------------- Init
\* The stores as the requests find them, the application serving.
Init ==
    /\ lifespan = Serving
    /\ documents = <<>>
    /\ bucket = [f \in Filenames |-> 0]
    /\ queue = [d \in DocIds |-> 0]
    /\ uploads = [r \in Requests |-> IdleUpload]
    /\ tasks = [w \in Tasks |-> IdleTask]
    /\ status_resp = NoStatusResp

\* --------------------------------------------------------- upload_document
\* POST /upload/ arrives with a file name and, possibly, a Content-Length.
\* Requests are numbered in the order they arrive.
UploadRequest(r, filename, content_length) ==
    /\ uploads[r].pc = "idle"
    /\ \A q \in Requests : q < r => uploads[q].pc # "idle"
    /\ uploads' = [uploads EXCEPT ![r] = [@ EXCEPT !.pc = "header",
                       !.filename = filename, !.content_length = content_length]]
    /\ UNCHANGED <<documents, bucket, queue, tasks>>
    /\ status_resp' = NoStatusResp
    /\ UNCHANGED lifespan

\* Line 114 as written: "request" is neither a parameter of upload_document
\* nor a module global, so evaluating it raises NameError, which the
\* framework answers with 500 Internal Server Error.
UploadReadHeader(r) ==
    /\ uploads[r].pc = "header"
    /\ uploads' = [uploads EXCEPT ![r] =
                       Respond(@, 500, "Internal Server Error", NoDoc)]
    /\ UNCHANGED <<documents, bucket, queue, tasks>>
    /\ status_resp' = NoStatusResp
    /\ UNCHANGED lifespan

\* f"File is too large. Limit is {MAX_FILE_SIZE / 1024 / 1024} MB."
TooLargeDetail ==
    "File is too large. Limit is "
        \o ToString((MAX_FILE_SIZE \div 1024) \div 1024) \o ".0 MB."

\* Lines 114-123 with "request" bound to the incoming request.
CheckLength(u) ==
    IF Len(u.content_length) = 0
    THEN Respond(u, 411, "Content-Length header required.", NoDoc)
    ELSE IF u.content_length[1] > MAX_FILE_SIZE
         THEN Respond(u, 413, TooLargeDetail, NoDoc)
         ELSE [u EXCEPT !.pc = "put"]

UploadCheckLength(r) ==
    /\ uploads[r].pc = "header"
    /\ uploads' = [uploads EXCEPT ![r] = CheckLength(@)]
    /\ UNCHANGED <<documents, bucket, queue, tasks>>
    /\ status_resp' = NoStatusResp
    /\ UNCHANGED lifespan

PutFailedDetail == "An unexpected error occurred during upload"

\* Mutant: the except clause logs the failure and falls through to the
\* insert instead of raising HTTP 500.
PutObject_FallThrough(r, ok) ==
    /\ bucket' = IF ok THEN [bucket EXCEPT ![uploads[r].filename] = r] ELSE bucket
    /\ uploads' = [uploads EXCEPT ![r] = [@ EXCEPT !.pc = "insert", !.wrote = ok]]

\* Lines 138-144: minio_client.upload_fileobj under key file.filename; any
\* exception becomes HTTP 500.
PutObject(r, ok) ==
    IF ok
    THEN /\ bucket' = [bucket EXCEPT ![uploads[r].filename] = r]
         /\ uploads' = [uploads EXCEPT ![r] = [@ EXCEPT !.pc = "insert", !.wrote = TRUE]]
    ELSE /\ bucket' = bucket
         /\ uploads' = [uploads EXCEPT ![r] = Respond(@, 500, PutFailedDetail, NoDoc)]

\* Mutant: the row is inserted and committed before the object is written,
\* so a failing write answers 500 with the row already in the table.
UploadPut_RowBeforeWrite(r) ==
    /\ uploads[r].pc = "put"
    /\ documents' = Append(documents, NewRow(uploads[r].filename, uploads[r].filename))
    /\ \E ok \in BOOLEAN :
          IF ok
          THEN /\ bucket' = [bucket EXCEPT ![uploads[r].filename] = r]
               /\ uploads' = [uploads EXCEPT ![r] = [@ EXCEPT !.pc = "enqueue",
                                  !.wrote = TRUE, !.doc_id = Len(documents) + 1,
                                  !.body = ToSchema(NewRow(@.filename, @.filename))]]
          ELSE /\ bucket' = bucket
               /\ uploads' = [uploads EXCEPT ![r] =
                                  Respond(@, 500, PutFailedDetail, NoDoc)]
    /\ UNCHANGED <<queue, tasks>>
    /\ status_resp' = NoStatusResp
    /\ UNCHANGED lifespan

UploadPut(r) ==
    /\ uploads[r].pc = "put"
    /\ \E ok \in BOOLEAN : PutObject(r, ok)
    /\ UNCHANGED <<documents, queue, tasks>>
    /\ status_resp' = NoStatusResp
    /\ UNCHANGED lifespan

\* Mutant: the row is flushed to learn its id but the commit is left out, so
\* the request goes on to enqueue an identifier no committed row has.
InsertDocument_FlushOnly(r, ok) ==
    /\ documents' = documents
    /\ uploads' = [uploads EXCEPT ![r] = [@ EXCEPT !.pc = "enqueue",
                       !.doc_id = Len(documents) + 1,
                       !.body = ToSchema(NewRow(@.filename, @.filename))]]

\* Mutant: uploads are deduplicated by filename: when a row with the same
\* filename exists it is reused instead of inserting a new one.
InsertDocument_Dedup(r, ok) ==
    LET same == {i \in 1..Len(documents) :
                    documents[i].filename = uploads[r].filename}
        row == NewRow(uploads[r].filename, uploads[r].filename) IN
    IF ok /\ same # {}
    THEN /\ documents' = documents
         /\ uploads' = [uploads EXCEPT ![r] = [@ EXCEPT !.pc = "enqueue",
                            !.doc_id = CHOOSE i \in same : TRUE,
                            !.body = ToSchema(documents[CHOOSE i \in same : TRUE])]]
    ELSE IF ok
    THEN /\ documents' = Append(documents, row)
         /\ uploads' = [uploads EXCEPT ![r] = [@ EXCEPT !.pc = "enqueue",
                            !.doc_id = row.id, !.body = ToSchema(row)]]
    ELSE /\ documents' = documents
         /\ uploads' = [uploads EXCEPT ![r] =
                            Respond(@, 500, "Internal Server Error", NoDoc)]

\* Lines 146-149: db.add, db.commit, db.refresh.  A commit that raises is not
\* caught: the request ends with 500 and nothing is inserted.
InsertDocument(r, ok) ==
    IF ok
    THEN LET row == NewRow(uploads[r].filename, uploads[r].filename) IN
         /\ documents' = Append(documents, row)
         /\ uploads' = [uploads EXCEPT ![r] = [@ EXCEPT !.pc = "enqueue",
                            !.doc_id = row.id, !.body = ToSchema(row)]]
    ELSE /\ documents' = documents
         /\ uploads' = [uploads EXCEPT ![r] =
                            Respond(@, 500, "Internal Server Error", NoDoc)]

UploadInsert(r) ==
    /\ uploads[r].pc = "insert"
    /\ \E ok \in BOOLEAN : InsertDocument(r, ok)
    /\ UNCHANGED <<bucket, queue, tasks>>
    /\ status_resp' = NoStatusResp
    /\ UNCHANGED lifespan

\* Lines 151-153: process_document.delay(db_document.id), then the record
\* refreshed at line 149 is returned.  A broker error is not caught.
EnqueueJob(r, ok) ==
    IF ok
    THEN /\ queue' = [queue EXCEPT ![uploads[r].doc_id] = @ + 1]
         /\ uploads' = [uploads EXCEPT ![r] = Respond(@, 200, "", @.body)]
    ELSE /\ queue' = queue
         /\ uploads' = [uploads EXCEPT ![r] =
                            Respond(@, 500, "Internal Server Error", NoDoc)]

UploadEnqueue(r) ==
    /\ uploads[r].pc = "enqueue"
    /\ \E ok \in BOOLEAN : EnqueueJob(r, ok)
    /\ UNCHANGED <<documents, bucket, tasks>>
    /\ status_resp' = NoStatusResp
    /\ UNCHANGED lifespan

\* ----------------------------------------------------- get_document_status
\* Mutant: the None check is left out, and a missing row is answered with
\* 200 and an empty record.
StatusResponse_NoNoneCheck(document_id) ==
    [document_id |-> document_id, status_code |-> 200, detail |-> "",
     body |-> IF document_id \in 1..Len(documents)
              THEN ToSchema(documents[document_id]) ELSE NoDoc]

\* Lines 155-163.
StatusResponse(document_id) ==
    IF RowExists(document_id)
    THEN [document_id |-> document_id, status_code |-> 200, detail |-> "",
          body |-> ToSchema(documents[document_id])]
    ELSE [document_id |-> document_id, status_code |-> 404,
          detail |-> "Document not found", body |-> NoDoc]

GetDocumentStatus(document_id) ==
    /\ status_resp' = StatusResponse(document_id)
    /\ UNCHANGED lifespan
    /\ UNCHANGED <<documents, bucket, queue, uploads, tasks>>

\* -------------------------------------------------------- process_document
\* Line 175: the invocation opens its own session; doc = None.
StartTask(t, document_id, origin) ==
    [t EXCEPT !.pc = "query", !.document_id = document_id, !.origin = origin,
              !.session = "open"]

\* Invocations are numbered in the order they start.
FirstIdle(w) ==
    /\ tasks[w].pc = "idle"
    /\ \A v \in Tasks : v < w => tasks[v].pc # "idle"

\* A worker takes a message that upload_document put on the queue (line 151).
TaskReceive(w, document_id) ==
    /\ FirstIdle(w)
    /\ queue[document_id] > 0
    /\ queue' = [queue EXCEPT ![document_id] = @ - 1]
    /\ tasks' = [tasks EXCEPT ![w] = StartTask(@, document_id, "queue")]
    /\ UNCHANGED <<documents, bucket, uploads>>
    /\ status_resp' = NoStatusResp
    /\ UNCHANGED lifespan

\* The task "process_document" (line 170) is run for an identifier that did
\* not come from this program's queue entry: a repeated delivery, or a call
\* by name with any integer.
TaskInvoke(w, document_id) ==
    /\ FirstIdle(w)
    /\ tasks' = [tasks EXCEPT ![w] = StartTask(@, document_id, "direct")]
    /\ UNCHANGED <<documents, bucket, queue, uploads>>
    /\ status_resp' = NoStatusResp
    /\ UNCHANGED lifespan

\* Lines 178-183: the lookup; a missing row returns (to the finally block),
\* a found one has doc.status set to PROCESSING in the session.
QueryDocument(t) ==
    IF RowExists(t.document_id)
    THEN [t EXCEPT !.pc = "commit", !.doc = TRUE, !.pending = "PROCESSING"]
    ELSE [t EXCEPT !.pc = "finally"]

\* Mutant: a missing row is taken for one not yet visible, and the job is
\* put back on the queue before returning.
TaskQuery_RequeueMissing(w) ==
    /\ tasks[w].pc = "query"
    /\ tasks' = [tasks EXCEPT ![w] = QueryDocument(@)]
    /\ queue' = IF RowExists(tasks[w].document_id) THEN queue
                ELSE [queue EXCEPT ![tasks[w].document_id] = @ + 1]
    /\ UNCHANGED <<documents, bucket, uploads>>
    /\ status_resp' = NoStatusResp
    /\ UNCHANGED lifespan

TaskQuery(w) ==
    /\ tasks[w].pc = "query"
    /\ tasks' = [tasks EXCEPT ![w] = QueryDocument(@)]
    /\ UNCHANGED <<documents, bucket, queue, uploads>>
    /\ status_resp' = NoStatusResp
    /\ UNCHANGED lifespan

\* Lines 214-218: the except block: db.rollback() discards what the session
\* had pending, then doc.status = FAILED if the row was loaded.
OnException(t, where) ==
    [t EXCEPT !.pc = "finally", !.raised_at = where,
              !.pending = IF t.doc THEN "FAILED" ELSE ""]

\* Mutant: the UPDATE is keyed by filename instead of the primary key, so it
\* also rewrites other rows stored under the same name.
Flush_ByFilename(t) ==
    IF t.doc /\ t.pending # ""
    THEN [i \in 1..Len(documents) |->
            IF documents[i].filename = documents[t.document_id].filename
            THEN [documents[i] EXCEPT !.status = t.pending]
            ELSE documents[i]]
    ELSE documents

\* The UPDATE a commit flushes: the pending status of the loaded row.
Flush(t) ==
    IF t.doc /\ t.pending # ""
    THEN [documents EXCEPT ![t.document_id].status = t.pending]
    ELSE documents

Committed(t) ==
    [t EXCEPT !.pending = "",
              !.committed = IF t.doc /\ t.pending # ""
                            THEN Append(@, t.pending) ELSE @]

\* Line 184: db.commit() of PROCESSING; if it raises, the except block runs.
CommitProcessing(w, ok) ==
    IF ok
    THEN /\ documents' = Flush(tasks[w])
         /\ tasks' = [tasks EXCEPT ![w] = [Committed(@) EXCEPT !.pc = "fetch"]]
    ELSE /\ documents' = documents
         /\ tasks' = [tasks EXCEPT ![w] = OnException(@, "commit")]

TaskCommit(w) ==
    /\ tasks[w].pc = "commit"
    /\ \E ok \in BOOLEAN : CommitProcessing(w, ok)
    /\ UNCHANGED <<bucket, queue, uploads>>
    /\ status_resp' = NoStatusResp
    /\ UNCHANGED lifespan

\* Lines 200-212: get_object under Key=doc.filename and the read of its body,
\* then the placeholder processing and doc.status = PROCESSED; any exception
\* goes to the except block.  A missing key always raises.
FetchObject(t, ok) ==
    IF ok /\ bucket[documents[t.document_id].filename] # 0
    THEN [t EXCEPT !.pc = "finally", !.pending = "PROCESSED"]
    ELSE OnException(t, "fetch")

TaskFetch(w) ==
    /\ tasks[w].pc = "fetch"
    /\ \E ok \in BOOLEAN : tasks' = [tasks EXCEPT ![w] = FetchObject(@, ok)]
    /\ UNCHANGED <<documents, bucket, queue, uploads>>
    /\ status_resp' = NoStatusResp
    /\ UNCHANGED lifespan

\* Mutant: the finally block closes the session without committing, so the
\* status set at line 212 or 218 is never written.
Finally_NoCommit(w, ok) ==
    /\ documents' = documents
    /\ tasks' = [tasks EXCEPT ![w] = [@ EXCEPT !.pc = "done", !.pending = "",
                     !.session = "closed", !.result = "returned"]]

\* Lines 219-223: the finally block.  After the rollback of the except block
\* (or with no failure) the session is active, so db.commit() runs; when it
\* succeeds db.close() follows, when it raises the exception leaves the
\* function before db.close().  A commit can raise when it has an UPDATE to
\* flush; with nothing pending it only ends the read transaction.
Finally(w, ok) ==
    IF ok
    THEN /\ documents' = Flush(tasks[w])
         /\ tasks' = [tasks EXCEPT ![w] = [Committed(@) EXCEPT !.pc = "done",
                          !.session = "closed", !.result = "returned"]]
    ELSE /\ documents' = documents
         /\ tasks' = [tasks EXCEPT ![w] = [@ EXCEPT !.pc = "done",
                          !.result = "raised"]]

TaskFinally(w) ==
    /\ tasks[w].pc = "finally"
    /\ \E ok \in BOOLEAN : (ok \/ tasks[w].pending # "") /\ Finally(w, ok)
    /\ UNCHANGED <<bucket, queue, uploads>>
    /\ status_resp' = NoStatusResp
    /\ UNCHANGED lifespan

\* ---------------------------------------------------------- specifications
\* The program as written: every upload ends at line 114.
Next ==
    \/ \E r \in Requests, f \in Filenames, h \in Headers : UploadRequest(r, f, h)
    \/ \E r \in Requests : UploadReadHeader(r)
    \/ \E d \in DocIds : GetDocumentStatus(d)

Spec == Init /\ [][Next]_vars

\* The program with "request" bound in upload_document.
NextBound ==
    \/ \E r \in Requests, f \in Filenames, h \in Headers : UploadRequest(r, f, h)
    \/ \E r \in Requests : UploadCheckLength(r)
    \/ \E r \in Requests : UploadPut(r)
    \/ \E r \in Requests : UploadInsert(r)
    \/ \E r \in Requests : UploadEnqueue(r)
    \/ \E d \in DocIds : GetDocumentStatus(d)
    \/ \E w \in Tasks, d \in DocIds : TaskReceive(w, d)
    \/ \E w \in Tasks, d \in DocIds : TaskInvoke(w, d)
    \/ \E w \in Tasks : TaskQuery(w)
    \/ \E w \in Tasks : TaskCommit(w)
    \/ \E w \in Tasks : TaskFetch(w)
    \/ \E w \in Tasks : TaskFinally(w)

SpecBound == Init /\ [][NextBound]_vars

\* The startup of the application.
InitStartup ==
    /\ lifespan = Starting
    /\ documents = <<>>
    /\ bucket = [f \in Filenames |-> 0]
    /\ queue = [d \in DocIds |-> 0]
    /\ uploads = [r \in Requests |-> IdleUpload]
    /\ tasks = [w \in Tasks |-> IdleTask]
    /\ status_resp = NoStatusResp

NextStartup ==
    \/ \E outcome \in AttemptOutcomes, created_ok \in BOOLEAN :
          LifespanAttempt(outcome, created_ok)
    \/ LifespanCheck

SpecStartup == InitStartup /\ [][NextStartup]_vars

\* ------------------------------------------------------------------ claims
Terminal == {"PROCESSED", "FAILED"}

AllowedSteps == {<<"QUEUED", "PROCESSING">>, <<"PROCESSING", "PROCESSED">>,
                 <<"PROCESSING", "FAILED">>}

\* C1: once the stored status of a row is PROCESSED or FAILED it never
\* changes again, whatever uploads and invocations (repeated ones included)
\* run.
C1_TerminalNeverChanges ==
    [][\A d \in 1..Len(documents) :
          documents[d].status \in Terminal
              => documents'[d].status = documents[d].status]_vars

\* C1, the steps: the stored status of every row changes only by
\* QUEUED -> PROCESSING, PROCESSING -> PROCESSED or PROCESSING -> FAILED.
C1_StatusStepsOnly ==
    [][\A d \in 1..Len(documents) :
          documents'[d].status # documents[d].status
              => <<documents[d].status, documents'[d].status>> \in AllowedSteps]_vars

\* C2: the handler writes the object, then commits the row, then enqueues:
\* every identifier waiting in the queue, held by an upload about to enqueue
\* or answered with 200, or held by an invocation started from the queue,
\* has its committed row, and such an invocation's lookup finds it.
C2_QueuedIdsResolve ==
    /\ \A d \in DocIds : queue[d] > 0 => d \in 1..Len(documents)
    /\ \A r \in Requests :
          /\ uploads[r].pc \in {"insert", "enqueue"} => uploads[r].wrote
          /\ (uploads[r].pc = "enqueue" \/ uploads[r].status_code = 200)
                => uploads[r].wrote /\ uploads[r].doc_id \in 1..Len(documents)
    /\ \A w \in Tasks :
          tasks[w].origin = "queue"
              => /\ tasks[w].document_id \in 1..Len(documents)
                 /\ tasks[w].pc # "query" => tasks[w].doc

C2_Witness ==
    \E w \in Tasks : tasks[w].origin = "queue" /\ tasks[w].pc = "commit" /\ tasks[w].doc

\* C3 as stated, for the uploads that have been answered: the upload's row
\* exists if and only if its object-store write succeeded.
C3_RowIffWritten ==
    \A r \in Requests :
        uploads[r].pc = "done"
            => (uploads[r].wrote <=> uploads[r].doc_id \in 1..Len(documents))

\* C3 as amended: a row exists only if the object-store write of the upload
\* that inserted it succeeded (each row belongs to exactly one upload that
\* wrote its key), and an upload whose write succeeded has its row once its
\* insert has been committed: from then on, and in particular whenever it
\* is answered with 200.
C3_RowOnlyIfWritten ==
    /\ \A r \in Requests :
          /\ uploads[r].doc_id # 0
                => /\ uploads[r].wrote
                   /\ uploads[r].doc_id \in 1..Len(documents)
                   /\ documents[uploads[r].doc_id].filename = uploads[r].filename
                   /\ bucket[uploads[r].filename] # 0
          /\ (uploads[r].pc = "enqueue" \/ uploads[r].status_code = 200)
                => uploads[r].doc_id # 0
    /\ \A d \in 1..Len(documents) :
          Cardinality({r \in Requests : uploads[r].doc_id = d}) = 1

C3_Witness ==
    /\ \E r \in Requests : uploads[r].status_code = 200
    /\ \E r \in Requests : uploads[r].pc = "done" /\ ~uploads[r].wrote
                             /\ uploads[r].detail = PutFailedDetail

\* C4: a failing object-store write is answered with 500 and leaves the
\* Metadata Store and the job queue as they were: no step of a request that
\* has not written its object changes either, such a request never gets past
\* the write or owns a row, and a finished request takes no further step.
C4_WriteFailureLeavesStores ==
    [][\A r \in Requests :
          /\ (uploads[r].pc = "put" /\ uploads'[r].pc = "done")
                => /\ uploads'[r].status_code = 500
                   /\ uploads'[r].detail = PutFailedDetail
                   /\ documents' = documents /\ queue' = queue /\ bucket' = bucket
          /\ ~uploads'[r].wrote
                => /\ uploads'[r].pc \in {"idle", "header", "put", "done"}
                   /\ uploads'[r].doc_id = 0
                   /\ uploads'[r] # uploads[r]
                         => documents' = documents /\ queue' = queue
          /\ uploads[r].pc = "done" => uploads'[r] = uploads[r]]_vars

C4_Witness ==
    \E r \in Requests :
        /\ uploads[r].pc = "done" /\ uploads[r].status_code = 500
        /\ uploads[r].detail = PutFailedDetail /\ ~uploads[r].wrote
        /\ Len(documents) > 0

\* C5: an upload request without a Content-Length header is answered with
\* 411, and no object is written, no row inserted and no job enqueued for it.
C5_MissingLengthIs411 ==
    \A r \in Requests :
        (uploads[r].pc = "done" /\ Len(uploads[r].content_length) = 0)
            => /\ uploads[r].status_code = 411
               /\ ~uploads[r].wrote /\ uploads[r].doc_id = 0

\* C6: an upload whose declared Content-Length is greater than 25 MiB is
\* answered with 413 and leaves no object, row or job; one whose declared
\* size is exactly the limit is not answered with 413.
C6_OversizeIs413 ==
    \A r \in Requests :
        (uploads[r].pc = "done" /\ Len(uploads[r].content_length) = 1)
            => IF uploads[r].content_length[1] > 25 * 1024 * 1024
               THEN /\ uploads[r].status_code = 413
                    /\ ~uploads[r].wrote /\ uploads[r].doc_id = 0
               ELSE uploads[r].status_code # 413

\* C7: an upload with a Content-Length within the limit, whose object-store
\* write did not fail, is answered with 200 and the new record in status
\* QUEUED, and the row a status query finds right after the response is
\* that record, in status QUEUED.
C7_AcceptedUploadIs200 ==
    [][\A r \in Requests :
          (/\ uploads[r].pc # "done" /\ uploads'[r].pc = "done"
           /\ Len(uploads'[r].content_length) = 1
           /\ uploads'[r].content_length[1] <= 25 * 1024 * 1024
           /\ uploads'[r].detail # PutFailedDetail)
              => /\ uploads'[r].status_code = 200
                 /\ uploads'[r].body.status = "queued"
                 /\ uploads'[r].body.id \in 1..Len(documents')
                 /\ documents'[uploads'[r].body.id].status = "QUEUED"
                 /\ documents'[uploads'[r].body.id].filename = uploads'[r].filename]_vars

C10_StatusIsPureRead ==
    [][status_resp' # NoStatusResp
          => /\ documents' = documents /\ bucket' = bucket /\ queue' = queue
             /\ uploads' = uploads /\ tasks' = tasks
             /\ LET d == status_resp'.document_id IN
                IF d \in 1..Len(documents)
                THEN /\ status_resp'.status_code = 200
                     /\ status_resp'.body.id = d
                     /\ status_resp'.body.filename = documents[d].filename
                     /\ status_resp'.body.s3_path = documents[d].s3_path
                     /\ status_resp'.body.upload_time = documents[d].upload_time
                     /\ status_resp'.body.status = DocumentStatus[documents[d].status]
                ELSE /\ status_resp'.status_code = 404
                     /\ status_resp'.detail = "Document not found"
                     /\ status_resp'.body = NoDoc]_vars

C10_Witness ==
    /\ status_resp.status_code = 200
    /\ status_resp.body.status = "processing"
    /\ \E w \in Tasks : tasks[w].pc = "fetch" /\ tasks[w].document_id = status_resp.document_id

\* C11: when every head_bucket attempt of the startup loop fails with an
\* error other than 404, startup is aborted: the lifespan does not reach
\* the point where the application serves.
C11_UnreachableStoreAborts ==
    (/\ lifespan.pc \notin {"loop", "check"}
     /\ Len(lifespan.attempts) = retries
     /\ \A i \in 1..Len(lifespan.attempts) :
           lifespan.attempts[i] \in {"client_error", "error"})
        => lifespan.pc = "aborted"

\* C17: the startup loop makes at most 5 attempts; an attempt is followed by
\* another only if it failed with something other than 404; it stops at the
\* first success and at the first 404, where it calls create_bucket exactly
\* once; no attempt is made once the loop is left.
C17_LoopBounded ==
    LET a == lifespan.attempts IN
    /\ Len(a) <= 5
    /\ \A i \in 1..Len(a) :
          i < Len(a) => a[i] \in {"no_client", "client_error", "error"}
    /\ lifespan.pc = "loop" => \A i \in 1..Len(a) : a[i] \notin {"found", "404"}
    /\ lifespan.pc # "loop"
          => /\ Len(a) >= 1
             /\ a[Len(a)] \in {"found", "404"} \/ Len(a) = 5
    /\ lifespan.created = Cardinality({i \in 1..Len(a) : a[i] = "404"})
    /\ lifespan.created <= 1

C17_Witness ==
    /\ lifespan.pc = "serving"
    /\ Len(lifespan.attempts) = 5
    /\ lifespan.attempts[5] = "404"
    /\ lifespan.created = 1

\* C13 as stated: while an invocation is at its fetch or processing step
\* the stored status of its row is PROCESSING, and an invocation that has
\* committed PROCESSED or FAILED committed PROCESSING first.
C13_ProcessingFirst ==
    \A w \in Tasks :
        /\ tasks[w].pc = "fetch"
              => documents[tasks[w].document_id].status = "PROCESSING"
        /\ (\E i \in 1..Len(tasks[w].committed) : tasks[w].committed[i] \in Terminal)
              => tasks[w].committed[1] = "PROCESSING"

\* What does hold of C13: an invocation reaches its fetch only after it has
\* committed PROCESSING, so from then on the stored status, and any status
\* query, is never QUEUED (it is PROCESSING unless another invocation for
\* the same identifier has committed since); PROCESSED is committed only
\* after PROCESSING, and FAILED is committed without it only when the commit
\* of PROCESSING itself raised.
C13_ProcessingBeforeFetch ==
    \A w \in Tasks :
        /\ tasks[w].pc = "fetch"
              => /\ tasks[w].committed = <<"PROCESSING">>
                 /\ documents[tasks[w].document_id].status # "QUEUED"
                 /\ status_resp.document_id = tasks[w].document_id
                       => status_resp.body.status \in {"processing", "processed", "failed"}
        /\ tasks[w].committed \in {<<>>, <<"PROCESSING">>, <<"FAILED">>,
                                   <<"PROCESSING", "PROCESSED">>,
                                   <<"PROCESSING", "FAILED">>}
        /\ tasks[w].committed = <<"FAILED">> => tasks[w].raised_at = "commit"

\* C14: existing rows are modified only by process_document and only in
\* their status: no step deletes a row or changes the id, filename, s3_path
\* or upload_time of a row, and a row changes only in a commit step of a
\* worker invocation for that row's identifier (never in a step of
\* upload_document or get_document_status, never by an invocation for
\* another identifier).
C14_RowsChangeOnlyByOwnTask ==
    [][/\ Len(documents') >= Len(documents)
       /\ \A i \in 1..Len(documents) :
            /\ documents'[i].id = documents[i].id
            /\ documents'[i].filename = documents[i].filename
            /\ documents'[i].s3_path = documents[i].s3_path
            /\ documents'[i].upload_time = documents[i].upload_time
            /\ documents'[i] # documents[i]
                  => /\ uploads' = uploads
                     /\ status_resp' = NoStatusResp
                     /\ \E w \in Tasks :
                           /\ tasks[w].document_id = i
                           /\ tasks[w].pc \in {"commit", "finally"}
                           /\ tasks'[w] # tasks[w]
                           /\ \A v \in Tasks \ {w} : tasks'[v] = tasks[v]]_vars

C14_Witness ==
    /\ Len(documents) = 2
    /\ documents[1].filename = documents[2].filename
    /\ documents[1].status = "QUEUED"
    /\ documents[2].status \in Terminal
    /\ \E w \in Tasks : tasks[w].document_id = 2 /\ tasks[w].pc = "done"
    /\ \A w \in Tasks : tasks[w].document_id # 1

\* C15: on every exit path of process_document the final step commits what
\* is pending and releases the database session: no invocation that has
\* ended still has its session open or a status left uncommitted.
C15_SessionReleased ==
    \A w \in Tasks :
        tasks[w].pc = "done"
            => tasks[w].session = "closed" /\ tasks[w].pending = ""

\* C16: uploads are never deduplicated by filename.  The insert of an upload
\* adds exactly one row, with an identifier no existing row has, whether or
\* not a row with the same filename exists, and leaves the other rows as
\* they are; every upload answered 200 has a row of its own.  The object
\* store holds one object per key, which changes only by the write of an
\* upload of that filename and then holds that (latest) write; every row
\* refers to the key equal to its filename.
C16_NoDeduplication ==
    [][/\ \A r \in Requests :
            uploads[r].pc = "insert" /\ uploads'[r].pc = "enqueue"
               => /\ Len(documents') = Len(documents) + 1
                  /\ SubSeq(documents', 1, Len(documents)) = documents
                  /\ \A i \in 1..Len(documents) :
                        documents[i].id # documents'[Len(documents')].id
                  /\ documents'[Len(documents')].filename = uploads[r].filename
                  /\ uploads'[r].doc_id = documents'[Len(documents')].id
       /\ \A r \in Requests :
            uploads'[r].pc = "done" /\ uploads'[r].status_code = 200
               => /\ uploads'[r].doc_id \in 1..Len(documents')
                  /\ documents'[uploads'[r].doc_id].filename = uploads'[r].filename
                  /\ \A q \in Requests \ {r} :
                        uploads'[q].doc_id # uploads'[r].doc_id
       /\ \A f \in Filenames :
            bucket'[f] # bucket[f]
               => \E r \in Requests :
                     /\ uploads[r].pc = "put" /\ uploads[r].filename = f
                     /\ uploads'[r].wrote /\ bucket'[f] = r
       /\ \A i \in 1..Len(documents') :
            /\ documents'[i].s3_path = documents'[i].filename
            /\ \A j \in 1..Len(documents') :
                  documents'[i].id = documents'[j].id => i = j]_vars

C16_Witness ==
    /\ \A r \in Requests : uploads[r].pc = "done" /\ uploads[r].status_code = 200
    /\ uploads[1].filename = uploads[2].filename
    /\ uploads[1].doc_id = 2 /\ uploads[2].doc_id = 1
    /\ bucket[uploads[1].filename] = 1
    /\ Len(documents) = 2 /\ documents[1].s3_path = documents[2].s3_path

\* C12, the part a finite run can refute: every worker invocation that
\* found its row ends (leaves its finally block) with that row in PROCESSED
\* or FAILED, so no document is left short of a terminal status by an
\* invocation that ran to its end without a crash.
C12_InvocationEndsTerminal ==
    [][\A w \in Tasks :
          tasks[w].pc = "finally" /\ tasks'[w].pc = "done" /\ tasks[w].doc
             => documents'[tasks[w].document_id].status \in Terminal]_vars

\* C18: every upload_document run that commits a row also enqueues a job
\* for it: once an upload has finished, with whatever response, the row it
\* committed is not left in QUEUED without a job having been enqueued.
C18_QueuedRowHasJob ==
    \A r \in Requests :
        (/\ uploads[r].pc = "done"
         /\ uploads[r].doc_id \in 1..Len(documents)
         /\ documents[uploads[r].doc_id].status = "QUEUED")
            => uploads[r].status_code = 200

\* C19: a row is in PROCESSING only while some process_document invocation
\* for its identifier is in flight.
C19_ProcessingOnlyInFlight ==
    \A d \in 1..Len(documents) :
        documents[d].status = "PROCESSING"
            => \E w \in Tasks :
                  /\ tasks[w].document_id = d
                  /\ tasks[w].pc \notin {"idle", "done"}

\* What does hold of C19: a row in PROCESSING has an invocation for its
\* identifier in flight, or one that ended with its final commit raising.
C19_ProcessingInFlightOrCommitRaised ==
    \A d \in 1..Len(documents) :
        documents[d].status = "PROCESSING"
            => \E w \in Tasks :
                  /\ tasks[w].document_id = d
                  /\ \/ tasks[w].pc \notin {"idle", "done"}
                     \/ tasks[w].result = "raised"

====
